---- MODULE Spec2Model ----
(***************************************************************************)
(* jstream-ext: combinators over futures' Stream / TryStream.             *)
(*                                                                         *)
(* One combinator instance wraps one upstream.  A behaviour of the model   *)
(* is a sequence of poll calls a consumer makes on that instance; each     *)
(* action is one whole call of poll / poll_next, including the loop it     *)
(* runs over the upstream.  The upstream is the environment: it answers    *)
(* the items of a finite script, then None, and may answer Pending at any  *)
(* poll.                                                                   *)
(***************************************************************************)
EXTENDS Integers, Sequences, FiniteSets, TLC

(* ------------------------------ bounds -------------------------------- *)

\* longest upstream script
MaxLen == 3
\* item values are 1..NumValues; fingerprints range over the same interval
NumValues == 2
\* largest offset given to nth / try_nth
MaxOffset == 2
\* polls a consumer may make beyond the script's length plus its None
MaxRepoll == 1
\* the longest upstream script of an instance that is pushed to as well
MaxSinkLen == 1
\* the longest upstream script of a fold that is awaited to its answer
MaxAwaitLen == 2

Values == 1..NumValues
Fingerprints == 1..NumValues
\* error values are opaque to every combinator: they are only moved
Errors == {1, 2}
\* initial accumulators given to fold_mut / try_fold_mut
Initials == {0, 1}

(* --------------------------- poll answers ----------------------------- *)

Ans(t, v) == [tag |-> t, val |-> v]
\* Poll::Pending
PENDING == Ans("Pending", 0)
\* Poll::Ready(None) of a stream
NONE == Ans("None", 0)
\* the call unwound with a panic
PANIC == Ans("Panic", 0)
\* the call never returns (its loop does not exit)
HANG == Ans("Hang", 0)
\* no poll was made yet
UNPOLLED == Ans("New", 0)
\* Some(Ok(v)) / Some(Err(e)) of a TryStream, Some(v) of a Stream
Ok(v) == Ans("Ok", v)
Err(e) == Ans("Err", e)
Val(v) == Ans("Val", v)
\* outputs of the futures
OkSome(v) == Ans("OkSome", v)
OkNone == Ans("OkNone", 0)
Acc(a) == Ans("Acc", a)
OkAcc(a) == Ans("OkAcc", a)

Seqs(S, n) == UNION {[1..m -> S] : m \in 0..n}
PlainItems == {Val(v) : v \in Values}
TryItems == {Ok(v) : v \in Values} \cup {Err(e) : e \in Errors}
\* what an upstream may do when it is polled again after it answered None
PostAnswers == {NONE, PANIC, PENDING}

VARIABLES
  kind,            \* which combinator this instance is
  input,           \* the upstream's script (fixed)
  hasher,          \* DedupStream.hasher : the fingerprint function
  size_hint,       \* DedupStream.size_hint : set by new, assigned nowhere else
  offset,          \* the n given to nth / try_nth
  initial,         \* the initial accumulator given to fold_mut
  failsOn,         \* the values on which the fold handler's future fails
  predicate,       \* TryFilterMapOk.predicate : the function given to try_filter_map_ok
  src,             \* the part of the script the upstream has not emitted
  ended,           \* the upstream has answered None
  known,           \* DedupStream.known
  fused,           \* FuseOnFail.fused, TryStreamNth.fused, StreamNth.fused
  failed,          \* FuseOnFail.failed
  remaining,       \* TryStreamNth.remaining, StreamNth.remaining
  state,           \* FoldMut.state : Option<T>
  pending_future,  \* FoldMut.pending_future : Option<Fut>
  out,             \* every answer but Pending the consumer received, in order
  last,            \* the answer of the latest call
  callLog,         \* what the latest call polled, and what it was answered
  suspended,       \* the consumer has received a Pending answer
  beyond,          \* the upstream was polled after it had answered None
  handled,         \* the values the handler (the predicate) was invoked with, in order
  pushed,          \* the latest push operation on the combinator, and its result
  received         \* the latest push operation the upstream received, and its answer

params == <<kind, input, hasher, size_hint, offset, initial, failsOn, predicate>>
upstream == <<src, ended>>
fields == <<known, fused, failed, remaining, state, pending_future>>
history == <<out, last, callLog, suspended, beyond, handled>>
sink == <<pushed, received>>
vars == <<params, upstream, fields, history, sink>>

(* ----------------------------- upstream ------------------------------- *)

\* The upstream as one call sees it: budget counts the answers that are
\* ready now (the poll after them answers Pending), post is what the
\* upstream does when polled after its None.
NewCall(b, p) ==
  [src |-> src, ended |-> ended, budget |-> b, post |-> p, log |-> <<>>, beyond |-> beyond]

UpAnswer(up) ==
  IF up.src = <<>> /\ up.ended THEN up.post
  ELSE IF up.budget = 0 THEN PENDING
  ELSE IF up.src # <<>> THEN Head(up.src)
  ELSE NONE

\* this.src.poll_next(cx) / this.src.try_poll_next(cx)
poll_next(up) ==
  LET ans == UpAnswer(up)
      fromScript == ~(up.src = <<>> /\ up.ended) /\ ans # PENDING
  IN [ans |-> ans,
      up |-> [up EXCEPT !.src = IF fromScript /\ @ # <<>> THEN Tail(@) ELSE @,
                        !.ended = @ \/ ans = NONE,
                        !.budget = IF fromScript THEN @ - 1 ELSE @,
                        !.log = Append(@, ans),
                        !.beyond = @ \/ (up.src = <<>> /\ up.ended)]]

(* ------------------------------ dedup.rs ------------------------------ *)

\* RandomState::default(): the fingerprint functions, one for each way of
\* making values collide (fingerprints are only compared for equality, so
\* one function per partition of the values stands for all the others)
Hashers ==
  {h \in [Values -> Fingerprints] :
     \A v \in Values : \A f \in 1..(h[v] - 1) : \E w \in 1..(v - 1) : h[w] = f}

\* fn hash(hasher, value) -> u64
hash(h, v) == h[v]

\* a HashSet::insert that reports every fingerprint as new
insert_always_new(kn, h) == [fresh |-> TRUE, set |-> kn \cup {h}]

\* a HashSet::insert that forgets the fingerprints inserted before
insert_forgetful(kn, h) == [fresh |-> h \notin kn, set |-> {h}]

\* a HashSet::insert that does not insert
insert_unrecorded(kn, h) == [fresh |-> h \notin kn, set |-> kn]

\* HashSet::insert: whether the value was newly inserted, and the set after
insert(kn, h) == [fresh |-> h \notin kn, set |-> kn \cup {h}]

RECURSIVE DedupStream_poll_next(_, _)
DedupStream_poll_next(kn, up) ==
  LET p == poll_next(up) IN
  CASE p.ans.tag = "Val" ->
         LET ins == insert(kn, hash(hasher, p.ans.val)) IN
         IF ins.fresh
         THEN [res |-> p.ans, known |-> ins.set, up |-> p.up]
         ELSE DedupStream_poll_next(ins.set, p.up)
    [] p.ans.tag = "None" -> [res |-> NONE, known |-> kn, up |-> p.up]
    [] OTHER -> [res |-> p.ans, known |-> kn, up |-> p.up]

\* an arm for the other answers that counts an Err as seen
TryDedupStream_on_other_seen(kn, p) ==
  [res |-> p.ans,
   known |-> IF p.ans.tag = "Err" THEN kn \cup {hash(hasher, p.ans.val)} ELSE kn,
   up |-> p.up]

\* an arm for the other answers that drops what follows an Err in the
\* upstream
TryDedupStream_on_other_ends(kn, p) ==
  [res |-> p.ans,
   known |-> kn,
   up |-> IF p.ans.tag = "Err" THEN [p.up EXCEPT !.src = <<>>] ELSE p.up]

\* an arm for the other answers that polls the upstream once more after a
\* Pending
TryDedupStream_on_other_repolls(kn, p) ==
  [res |-> p.ans,
   known |-> kn,
   up |-> IF p.ans = PENDING THEN poll_next(p.up).up ELSE p.up]

\* an arm for the other answers that answers None, whatever the upstream
\* answers, once the upstream has answered None
TryDedupStream_on_other_fused(kn, p) ==
  [res |-> IF p.up.ended THEN NONE ELSE p.ans, known |-> kn, up |-> p.up]

\* other => return Ready(other)
TryDedupStream_on_other(kn, p) == [res |-> p.ans, known |-> kn, up |-> p.up]

RECURSIVE TryDedupStream_poll_next(_, _)
TryDedupStream_poll_next(kn, up) ==
  LET p == poll_next(up) IN
  CASE p.ans.tag = "Ok" ->
         LET ins == insert(kn, hash(hasher, p.ans.val)) IN
         IF ins.fresh
         THEN [res |-> p.ans, known |-> ins.set, up |-> p.up]
         ELSE TryDedupStream_poll_next(ins.set, p.up)
    [] OTHER -> TryDedupStream_on_other(kn, p)

(* --------------------------- fuse_on_fail.rs -------------------------- *)

\* a None arm that leaves fused unset
FuseOnFail_on_none_unfused(p) == [res |-> NONE, fused |-> FALSE, failed |-> FALSE, up |-> p.up]

\* an Err arm that leaves failed unset
FuseOnFail_on_err_unfailed(p) == [res |-> p.ans, fused |-> FALSE, failed |-> FALSE, up |-> p.up]

\* a failed branch that leaves fused unset
FuseOnFail_on_failed_unfused(up) == [res |-> NONE, fused |-> FALSE, failed |-> TRUE, up |-> up]

\* a failed branch that polls the upstream before it answers None
FuseOnFail_on_failed_polls(up) ==
  [res |-> NONE, fused |-> TRUE, failed |-> TRUE, up |-> poll_next(up).up]

\* FuseOnFail's match arms on the upstream's answer
FuseOnFail_on_none(p) == [res |-> NONE, fused |-> TRUE, failed |-> FALSE, up |-> p.up]
FuseOnFail_on_err(p) == [res |-> p.ans, fused |-> FALSE, failed |-> TRUE, up |-> p.up]
FuseOnFail_on_failed(up) == [res |-> NONE, fused |-> TRUE, failed |-> TRUE, up |-> up]

\* a fused FuseOnFail that answers None instead of panicking
FuseOnFail_on_fused_quiet(fa, up) == [res |-> NONE, fused |-> TRUE, failed |-> fa, up |-> up]

\* if *this.fused { panic!("poll after fused!") }
FuseOnFail_on_fused(fa, up) == [res |-> PANIC, fused |-> TRUE, failed |-> fa, up |-> up]

FuseOnFail_poll_next(fu, fa, up) ==
  IF fu THEN FuseOnFail_on_fused(fa, up)
  ELSE IF fa THEN FuseOnFail_on_failed(up)
  ELSE LET p == poll_next(up) IN
       CASE p.ans.tag = "Ok" -> [res |-> p.ans, fused |-> fu, failed |-> fa, up |-> p.up]
         [] p.ans.tag = "None" -> FuseOnFail_on_none(p)
         [] p.ans.tag = "Err" -> FuseOnFail_on_err(p)
         [] OTHER -> [res |-> p.ans, fused |-> fu, failed |-> fa, up |-> p.up]

\* FusedStream::is_terminated
FuseOnFail_is_terminated == fused

(* -------------------------------- nth.rs ------------------------------ *)

\* a test of the remaining-count that is off by one
remaining_is_zero_early(rem) == rem <= 1

\* if *remaining == 0
remaining_is_zero(rem) == rem = 0

\* an Err arm that pulls one more item before it returns the Err
TryStreamNth_on_err_pulls(rem, p) ==
  [res |-> p.ans, fused |-> FALSE, remaining |-> rem, up |-> poll_next(p.up).up]

\* Some(Err(err)) => break Err(err)
TryStreamNth_on_err(rem, p) ==
  [res |-> p.ans, fused |-> FALSE, remaining |-> rem, up |-> p.up]

\* the loop of TryStreamNth::poll; ready! returns Pending from inside it,
\* with remaining as the loop left it
RECURSIVE TryStreamNth_loop(_, _)
TryStreamNth_loop(rem, up) ==
  LET p == poll_next(up) IN
  CASE p.ans.tag = "Ok" ->
         IF remaining_is_zero(rem)
         THEN [res |-> OkSome(p.ans.val), fused |-> TRUE, remaining |-> rem, up |-> p.up]
         ELSE TryStreamNth_loop(rem - 1, p.up)
    [] p.ans.tag = "Err" -> TryStreamNth_on_err(rem, p)
    [] p.ans.tag = "None" -> [res |-> OkNone, fused |-> FALSE, remaining |-> rem, up |-> p.up]
    [] OTHER -> [res |-> p.ans, fused |-> FALSE, remaining |-> rem, up |-> p.up]

TryStreamNth_poll(fu, rem, up) ==
  IF fu THEN [res |-> PANIC, fused |-> fu, remaining |-> rem, up |-> up]
  ELSE TryStreamNth_loop(rem, up)

\* StreamNth::poll: a loop without an arm for None, which polls the upstream
\* again after its None; against an upstream that then answers None to every
\* poll the loop does not exit
RECURSIVE StreamNth_poll(_, _)
StreamNth_poll(rem, up) ==
  LET p == poll_next(up) IN
  CASE p.ans.tag = "Val" ->
         IF remaining_is_zero(rem)
         THEN [res |-> p.ans, remaining |-> rem, up |-> p.up]
         ELSE StreamNth_poll(rem - 1, p.up)
    [] p.ans.tag = "None" ->
         IF up.src = <<>> /\ up.ended /\ up.post = NONE
         THEN [res |-> HANG, remaining |-> rem, up |-> p.up]
         ELSE StreamNth_poll(rem, p.up)
    [] OTHER -> [res |-> p.ans, remaining |-> rem, up |-> p.up]

(* ------------------------------ fold_mut.rs --------------------------- *)

NoAcc == [some |-> FALSE, val |-> 0]
SomeAcc(a) == [some |-> TRUE, val |-> a]
NoFuture == [some |-> FALSE, of |-> 0]
SomeFuture(v) == [some |-> TRUE, of |-> v]

\* the handler given to fold_mut: it writes the value to the accumulator as
\* its next digit, so that the accumulator tells which values were folded
\* in, and in which order
handler(acc, v) == acc * (NumValues + 1) + v

\* the error of the handler's future for v (no error of the upstream)
HandlerError(v) == Err(Cardinality(Errors) + v)

\* a poll of the pending future that does not poll it and takes it for
\* completed
future_poll_skipped(fut, up) == [ready |-> TRUE, err |-> FALSE, up |-> up]

\* a poll of the pending future that takes a future that is not ready for
\* one that has completed without error
future_poll_pending_is_ready(fut, up) ==
  IF up.budget = 0
  THEN [ready |-> TRUE, err |-> FALSE,
        up |-> [up EXCEPT !.log = Append(@, Ans("FuturePending", fut.of))]]
  ELSE [ready |-> TRUE, err |-> fut.of \in failsOn,
        up |-> [up EXCEPT !.budget = @ - 1,
                          !.log = Append(@, Ans("FutureReady", fut.of))]]

\* a poll of the pending future that takes a future that has completed for
\* one that is not ready
future_poll_never_ready(fut, up) ==
  [ready |-> FALSE, err |-> FALSE,
   up |-> [up EXCEPT !.log = Append(@, Ans("FuturePending", fut.of))]]

\* future.poll(cx) / future.try_poll(cx) on the pending future
future_poll(fut, up) ==
  IF up.budget = 0
  THEN [ready |-> FALSE, err |-> FALSE,
        up |-> [up EXCEPT !.log = Append(@, Ans("FuturePending", fut.of))]]
  ELSE [ready |-> TRUE, err |-> fut.of \in failsOn,
        up |-> [up EXCEPT !.budget = @ - 1,
                          !.log = Append(@, Ans("FutureReady", fut.of))]]

\* an Option::take that leaves the value in the slot
take_clone(st) == [taken |-> st, left |-> st]

\* this.state.take(): what was in the slot, and the slot left empty
take(st) == [taken |-> st, left |-> NoAcc]

\* an item arm that drops the item
fold_on_item_dropped(st, hd, v) ==
  [state |-> st, pending_future |-> NoFuture, handled |-> hd]

\* let future = (this.handler)(state, next); this.pending_future.set(Some(future))
fold_on_item(st, hd, v) ==
  [state |-> SomeAcc(handler(st.val, v)),
   pending_future |-> SomeFuture(v),
   handled |-> Append(hd, v)]

RECURSIVE FoldMut_poll(_, _, _, _)
FoldMut_poll(st, fut, hd, up) ==
  LET f == IF fut.some THEN future_poll(fut, up)
           ELSE [ready |-> TRUE, err |-> FALSE, up |-> up]
  IN
  IF ~f.ready
  THEN [res |-> PENDING, state |-> st, pending_future |-> fut, handled |-> hd, up |-> f.up]
  ELSE LET p == poll_next(f.up) IN
       CASE p.ans.tag = "Val" ->
              IF ~st.some
              THEN [res |-> PANIC, state |-> st, pending_future |-> NoFuture,
                    handled |-> hd, up |-> p.up]
              ELSE LET n == fold_on_item(st, hd, p.ans.val)
                   IN FoldMut_poll(n.state, n.pending_future, n.handled, p.up)
         [] p.ans.tag = "None" ->
              LET t == take(st) IN
              [res |-> IF t.taken.some THEN Acc(t.taken.val) ELSE PANIC,
               state |-> t.left, pending_future |-> NoFuture, handled |-> hd, up |-> p.up]
         [] OTHER ->
              [res |-> p.ans, state |-> st, pending_future |-> NoFuture,
               handled |-> hd, up |-> p.up]

\* a handler-error exit that pulls the upstream before it returns
TryFoldMut_on_handler_err_pulls(st, fut, hd, up) ==
  [res |-> HandlerError(fut.of), state |-> take(st).left,
   pending_future |-> NoFuture, handled |-> hd, up |-> poll_next(up).up]

\* this.pending_future.set(None);
\* if let Err(err) = out { this.state.take(); break Err(err); }
TryFoldMut_on_handler_err(st, fut, hd, up) ==
  [res |-> HandlerError(fut.of), state |-> take(st).left,
   pending_future |-> NoFuture, handled |-> hd, up |-> up]

\* an Err arm that hands the Err to the handler as well
TryFoldMut_on_err_handled(st, hd, p) ==
  [res |-> p.ans, state |-> take(st).left, pending_future |-> NoFuture,
   handled |-> Append(hd, p.ans.val), up |-> p.up]

\* Some(Err(err)) => { this.state.take(); break Err(err); }
TryFoldMut_on_err(st, hd, p) ==
  [res |-> p.ans, state |-> take(st).left, pending_future |-> NoFuture,
   handled |-> hd, up |-> p.up]

RECURSIVE TryFoldMut_poll(_, _, _, _)
TryFoldMut_poll(st, fut, hd, up) ==
  LET f == IF fut.some THEN future_poll(fut, up)
           ELSE [ready |-> TRUE, err |-> FALSE, up |-> up]
  IN
  IF ~f.ready
  THEN [res |-> PENDING, state |-> st, pending_future |-> fut, handled |-> hd, up |-> f.up]
  ELSE IF f.err
  THEN TryFoldMut_on_handler_err(st, fut, hd, f.up)
  ELSE LET p == poll_next(f.up) IN
       CASE p.ans.tag = "Ok" ->
              IF ~st.some
              THEN [res |-> PANIC, state |-> st, pending_future |-> NoFuture,
                    handled |-> hd, up |-> p.up]
              ELSE LET n == fold_on_item(st, hd, p.ans.val)
                   IN TryFoldMut_poll(n.state, n.pending_future, n.handled, p.up)
         [] p.ans.tag = "Err" -> TryFoldMut_on_err(st, hd, p)
         [] p.ans.tag = "None" ->
              LET t == take(st) IN
              [res |-> IF t.taken.some THEN OkAcc(t.taken.val) ELSE PANIC,
               state |-> t.left, pending_future |-> NoFuture, handled |-> hd, up |-> p.up]
         [] OTHER ->
              [res |-> p.ans, state |-> st, pending_future |-> NoFuture,
               handled |-> hd, up |-> p.up]

(* ------------------------- try_filter_map_ok.rs ------------------------ *)

\* Option<R>
OptNone == [some |-> FALSE, val |-> 0]
OptSome(r) == [some |-> TRUE, val |-> r]

\* the R made of a value, told apart from every value
ToR(v) == NumValues + v

\* the functions given to try_filter_map_ok: each keeps some of the values,
\* as their R, and skips the others (filter_empty is one of them)
Predicates ==
  {[v \in Values |-> IF v \in K THEN OptSome(ToR(v)) ELSE OptNone] : K \in SUBSET Values}

\* the field of the combinators that have no predicate
NoPredicate == <<>>

\* an Err arm that drops what follows the Err in the upstream
TryFilterMapOk_on_err_ends(hd, p) ==
  [res |-> p.ans, handled |-> hd, up |-> [p.up EXCEPT !.src = <<>>]]

\* an Err arm that gives the Err to the function as well
TryFilterMapOk_on_err_called(hd, p) ==
  [res |-> p.ans, handled |-> Append(hd, p.ans.val), up |-> p.up]

\* Some(Err(err)) => break Some(Err(err))
TryFilterMapOk_on_err(hd, p) == [res |-> p.ans, handled |-> hd, up |-> p.up]

RECURSIVE TryFilterMapOk_poll_next(_, _)
TryFilterMapOk_poll_next(hd, up) ==
  LET p == poll_next(up) IN
  CASE p.ans.tag = "Ok" ->
         LET o == predicate[p.ans.val] IN
         IF o.some
         THEN [res |-> Ok(o.val), handled |-> Append(hd, p.ans.val), up |-> p.up]
         ELSE TryFilterMapOk_poll_next(Append(hd, p.ans.val), p.up)
    [] p.ans.tag = "Err" -> TryFilterMapOk_on_err(hd, p)
    [] p.ans.tag = "None" -> [res |-> NONE, handled |-> hd, up |-> p.up]
    [] OTHER -> [res |-> p.ans, handled |-> hd, up |-> p.up]

(* --------------------------- delegate_sink! ---------------------------- *)

\* Ok(())
SinkOk == Ans("Unit", 0)

\* Poll<Result<(), Self::Error>> and Result<(), Self::Error>
PollResults == {SinkOk, PENDING} \cup {Err(e) : e \in Errors}
SendResults == {SinkOk} \cup {Err(e) : e \in Errors}

\* no push operation yet
NoPush == [op |-> "none", item |-> 0, res |-> UNPOLLED]

\* self.project().$field.<op>(..): the operation as the upstream receives
\* it, with the answer r the upstream gives
sink_call(op, item, r) == [op |-> op, item |-> item, res |-> r]

\* a start_send that keeps the item and answers Ok(()) itself
start_send_buffered(item, r) == [res |-> SinkOk, received |-> received]

\* the four functions the macro defines: each makes the same call on the
\* field and returns what the call returns
poll_ready(r) ==
  LET c == sink_call("poll_ready", 0, r) IN [res |-> c.res, received |-> c]
start_send(item, r) ==
  LET c == sink_call("start_send", item, r) IN [res |-> c.res, received |-> c]
poll_flush(r) ==
  LET c == sink_call("poll_flush", 0, r) IN [res |-> c.res, received |-> c]
poll_close(r) ==
  LET c == sink_call("poll_close", 0, r) IN [res |-> c.res, received |-> c]

(* ------------------------- the consumer's calls ------------------------ *)

\* the answers that can be ready in one call: what is left of the script
\* and its None, and for a fold one handler future per item as well
Budgets == 0..(2 * Len(src) + 2)

CanPoll ==
  /\ last # HANG
  /\ Len(out) < Len(input) + 1 + MaxRepoll

\* what every call leaves behind: the upstream as the call left it, and
\* the answer the consumer saw
Return(res, up) ==
  /\ src' = up.src
  /\ ended' = up.ended
  /\ callLog' = up.log
  /\ last' = res
  /\ out' = IF res \in {PENDING, HANG} THEN out ELSE Append(out, res)
  /\ suspended' = (suspended \/ res = PENDING)
  /\ beyond' = up.beyond

PollDedupStream ==
  /\ kind = "DedupStream"
  /\ CanPoll
  /\ \E b \in Budgets, p \in PostAnswers :
       LET r == DedupStream_poll_next(known, NewCall(b, p)) IN
       /\ Return(r.res, r.up)
       /\ known' = r.known
  /\ UNCHANGED <<params, sink, fused, failed, remaining, state, pending_future, handled>>

PollTryDedupStream ==
  /\ kind = "TryDedupStream"
  /\ CanPoll
  /\ \E b \in Budgets, p \in PostAnswers :
       LET r == TryDedupStream_poll_next(known, NewCall(b, p)) IN
       /\ Return(r.res, r.up)
       /\ known' = r.known
  /\ UNCHANGED <<params, sink, fused, failed, remaining, state, pending_future, handled>>

PollFuseOnFail ==
  /\ kind = "FuseOnFail"
  /\ CanPoll
  /\ \E b \in Budgets, p \in PostAnswers :
       LET r == FuseOnFail_poll_next(fused, failed, NewCall(b, p)) IN
       /\ Return(r.res, r.up)
       /\ fused' = r.fused
       /\ failed' = r.failed
  /\ UNCHANGED <<params, sink, known, remaining, state, pending_future, handled>>

PollTryStreamNth ==
  /\ kind = "TryStreamNth"
  /\ CanPoll
  /\ \E b \in Budgets, p \in PostAnswers :
       LET r == TryStreamNth_poll(fused, remaining, NewCall(b, p)) IN
       /\ Return(r.res, r.up)
       /\ fused' = r.fused
       /\ remaining' = r.remaining
  /\ UNCHANGED <<params, sink, known, failed, state, pending_future, handled>>

PollStreamNth ==
  /\ kind = "StreamNth"
  /\ CanPoll
  /\ \E b \in Budgets, p \in PostAnswers :
       LET r == StreamNth_poll(remaining, NewCall(b, p)) IN
       /\ Return(r.res, r.up)
       /\ remaining' = r.remaining
  /\ UNCHANGED <<params, sink, known, fused, failed, state, pending_future, handled>>

PollFoldMut ==
  /\ kind = "FoldMut"
  /\ CanPoll
  /\ \E b \in Budgets, p \in PostAnswers :
       LET r == FoldMut_poll(state, pending_future, handled, NewCall(b, p)) IN
       /\ Return(r.res, r.up)
       /\ state' = r.state
       /\ pending_future' = r.pending_future
       /\ handled' = r.handled
  /\ UNCHANGED <<params, sink, known, fused, failed, remaining>>

PollTryFoldMut ==
  /\ kind = "TryFoldMut"
  /\ CanPoll
  /\ \E b \in Budgets, p \in PostAnswers :
       LET r == TryFoldMut_poll(state, pending_future, handled, NewCall(b, p)) IN
       /\ Return(r.res, r.up)
       /\ state' = r.state
       /\ pending_future' = r.pending_future
       /\ handled' = r.handled
  /\ UNCHANGED <<params, sink, known, fused, failed, remaining>>

PollTryFilterMapOk ==
  /\ kind = "TryFilterMapOk"
  /\ CanPoll
  /\ \E b \in Budgets, p \in PostAnswers :
       LET r == TryFilterMapOk_poll_next(handled, NewCall(b, p)) IN
       /\ Return(r.res, r.up)
       /\ handled' = r.handled
  /\ UNCHANGED <<params, sink, known, fused, failed, remaining, state, pending_future>>

\* the consumer's push operations; they touch the field alone
PushPollReady ==
  /\ \E r \in PollResults :
       LET d == poll_ready(r) IN
       /\ pushed' = [op |-> "poll_ready", item |-> 0, res |-> d.res]
       /\ received' = d.received
  /\ UNCHANGED <<params, upstream, fields, history>>

PushStartSend ==
  /\ \E item \in Values, r \in SendResults :
       LET d == start_send(item, r) IN
       /\ pushed' = [op |-> "start_send", item |-> item, res |-> d.res]
       /\ received' = d.received
  /\ UNCHANGED <<params, upstream, fields, history>>

PushPollFlush ==
  /\ \E r \in PollResults :
       LET d == poll_flush(r) IN
       /\ pushed' = [op |-> "poll_flush", item |-> 0, res |-> d.res]
       /\ received' = d.received
  /\ UNCHANGED <<params, upstream, fields, history>>

PushPollClose ==
  /\ \E r \in PollResults :
       LET d == poll_close(r) IN
       /\ pushed' = [op |-> "poll_close", item |-> 0, res |-> d.res]
       /\ received' = d.received
  /\ UNCHANGED <<params, upstream, fields, history>>

(* ------------------------------ new(...) ------------------------------ *)

Fresh(k, inp) ==
  /\ kind = k
  /\ input = inp
  /\ src = inp
  /\ ended = FALSE
  /\ out = <<>>
  /\ last = UNPOLLED
  /\ callLog = <<>>
  /\ suspended = FALSE
  /\ beyond = FALSE
  /\ handled = <<>>
  /\ pushed = NoPush
  /\ received = NoPush

\* src.size_hint() of an upstream that knows what it has left, as
\* stream::iter does: the pair (lower bound, upper bound)
src_size_hint(s) == <<Len(s), Len(s)>>

\* the combinators that keep no size hint
NoHint == <<>>

\* DedupStream::size_hint / TryDedupStream::size_hint: self.size_hint
DedupStream_size_hint == size_hint

\* DedupStream::new
InitDedupStream ==
  /\ \E inp \in Seqs(PlainItems, MaxLen) : Fresh("DedupStream", inp)
  /\ size_hint = src_size_hint(src)
  /\ hasher \in Hashers
  /\ known = {}
  /\ fused = FALSE /\ failed = FALSE /\ remaining = 0 /\ offset = 0
  /\ state = NoAcc /\ pending_future = NoFuture /\ initial = 0 /\ failsOn = {}
  /\ predicate = NoPredicate

\* TryDedupStream::new
InitTryDedupStream ==
  /\ \E inp \in Seqs(TryItems, MaxLen) : Fresh("TryDedupStream", inp)
  /\ size_hint = src_size_hint(src)
  /\ hasher \in Hashers
  /\ known = {}
  /\ fused = FALSE /\ failed = FALSE /\ remaining = 0 /\ offset = 0
  /\ state = NoAcc /\ pending_future = NoFuture /\ initial = 0 /\ failsOn = {}
  /\ predicate = NoPredicate

\* FuseOnFail::new
InitFuseOnFail ==
  /\ \E inp \in Seqs(TryItems, MaxLen) : Fresh("FuseOnFail", inp)
  /\ size_hint = NoHint
  /\ fused = FALSE /\ failed = FALSE
  /\ hasher = [v \in Values |-> v] /\ known = {} /\ remaining = 0 /\ offset = 0
  /\ state = NoAcc /\ pending_future = NoFuture /\ initial = 0 /\ failsOn = {}
  /\ predicate = NoPredicate

\* TryStreamNth::new, TryStreamNth::first
InitTryStreamNth ==
  /\ \E inp \in Seqs(TryItems, MaxLen) : Fresh("TryStreamNth", inp)
  /\ size_hint = NoHint
  /\ offset \in 0..MaxOffset
  /\ remaining = offset
  /\ fused = FALSE
  /\ failed = FALSE /\ hasher = [v \in Values |-> v] /\ known = {}
  /\ state = NoAcc /\ pending_future = NoFuture /\ initial = 0 /\ failsOn = {}
  /\ predicate = NoPredicate

\* StreamNth::new, StreamNth::first
InitStreamNth ==
  /\ \E inp \in Seqs(PlainItems, MaxLen) : Fresh("StreamNth", inp)
  /\ size_hint = NoHint
  /\ offset \in 0..MaxOffset
  /\ remaining = offset
  /\ fused = FALSE
  /\ failed = FALSE /\ hasher = [v \in Values |-> v] /\ known = {}
  /\ state = NoAcc /\ pending_future = NoFuture /\ initial = 0 /\ failsOn = {}
  /\ predicate = NoPredicate

\* FoldMut::new
InitFoldMut ==
  /\ \E inp \in Seqs(PlainItems, MaxLen) : Fresh("FoldMut", inp)
  /\ size_hint = NoHint
  /\ initial \in Initials
  /\ state = SomeAcc(initial)
  /\ pending_future = NoFuture
  /\ failsOn = {}
  /\ fused = FALSE /\ failed = FALSE /\ remaining = 0 /\ offset = 0
  /\ hasher = [v \in Values |-> v] /\ known = {}
  /\ predicate = NoPredicate

\* TryFoldMut::new
InitTryFoldMut ==
  /\ \E inp \in Seqs(TryItems, MaxLen) : Fresh("TryFoldMut", inp)
  /\ size_hint = NoHint
  /\ initial \in Initials
  /\ state = SomeAcc(initial)
  /\ pending_future = NoFuture
  /\ failsOn \in SUBSET Values
  /\ fused = FALSE /\ failed = FALSE /\ remaining = 0 /\ offset = 0
  /\ hasher = [v \in Values |-> v] /\ known = {}
  /\ predicate = NoPredicate

\* TryFilterMapOk::new
InitTryFilterMapOk ==
  /\ \E inp \in Seqs(TryItems, MaxLen) : Fresh("TryFilterMapOk", inp)
  /\ size_hint = NoHint
  /\ predicate \in Predicates
  /\ fused = FALSE /\ failed = FALSE /\ remaining = 0 /\ offset = 0
  /\ hasher = [v \in Values |-> v] /\ known = {}
  /\ state = NoAcc /\ pending_future = NoFuture /\ initial = 0 /\ failsOn = {}

(* --------------------------- specifications --------------------------- *)

InitDedup == InitDedupStream \/ InitTryDedupStream
NextDedup == PollDedupStream \/ PollTryDedupStream
SpecDedup == InitDedup /\ [][NextDedup]_vars

InitFuse == InitFuseOnFail
NextFuse == PollFuseOnFail
SpecFuse == InitFuse /\ [][NextFuse]_vars

InitNth == InitTryStreamNth \/ InitStreamNth
NextNth == PollTryStreamNth \/ PollStreamNth
SpecNth == InitNth /\ [][NextNth]_vars

InitFold == InitFoldMut \/ InitTryFoldMut
NextFold == PollFoldMut \/ PollTryFoldMut
SpecFold == InitFold /\ [][NextFold]_vars

\* the folds awaited: polled by a consumer that polls again after a Pending
\* and no more once it has the answer, over an upstream and handler futures
\* that do not answer Pending for ever, so that a call in which something
\* polled is ready keeps being made
AwaitFoldMut == out = <<>> /\ PollFoldMut
AwaitTryFoldMut == out = <<>> /\ PollTryFoldMut
InitAwait == InitFold /\ Len(input) <= MaxAwaitLen
NextAwait == AwaitFoldMut \/ AwaitTryFoldMut
AwaitProgress == NextAwait /\ (last' # PENDING \/ Len(callLog') > 1)
SpecAwait == InitAwait /\ [][NextAwait]_vars /\ WF_vars(AwaitProgress)

InitFilter == InitTryFilterMapOk
NextFilter == PollTryFilterMapOk
SpecFilter == InitFilter /\ [][NextFilter]_vars

Init == InitDedup \/ InitFuse \/ InitNth \/ InitFold \/ InitFilter
NextPoll == NextDedup \/ NextFuse \/ NextNth \/ NextFold \/ NextFilter
NextPush == PushPollReady \/ PushStartSend \/ PushPollFlush \/ PushPollClose
Next == NextPoll \/ NextPush

\* the adapters that keep no flag of their own for the end of the stream
InitPassThrough == InitDedup \/ InitFilter
NextPassThrough == NextDedup \/ NextFilter
SpecPassThrough == InitPassThrough /\ [][NextPassThrough]_vars

\* the combinators as streams and futures alone
SpecPoll == Init /\ [][NextPoll]_vars

\* a combinator over an upstream that is a Sink as well
InitSink == Init /\ Len(input) <= MaxSinkLen
NextSink == NextPoll \/ NextPush
SpecSink == InitSink /\ [][NextSink]_vars
Spec == Init /\ [][Next]_vars

(* ------------------------ what the claims speak of --------------------- *)

\* the items the upstream has emitted so far
Consumed == SubSeq(input, 1, Len(input) - Len(src))

IsValue(a) == a.tag \in {"Ok", "Val"}
IsItem(a) == a.tag \in {"Ok", "Val", "Err"}

\* the number of items at the head of s, before its first answer that is none
RECURSIVE LeadingItems(_)
LeadingItems(s) ==
  IF s = <<>> \/ ~IsItem(Head(s)) THEN 0 ELSE 1 + LeadingItems(Tail(s))

\* s without the values that occur earlier in s (an Err is never a repeat)
RECURSIVE FirstOccurrences(_)
FirstOccurrences(s) ==
  IF s = <<>> THEN <<>>
  ELSE LET n == Len(s)
           front == SubSeq(s, 1, n - 1)
       IN IF IsValue(s[n]) /\ \E j \in 1..(n - 1) : s[j] = s[n]
          THEN FirstOccurrences(front)
          ELSE Append(FirstOccurrences(front), s[n])

\* the fingerprint function tells apart the values the upstream emits
InjectiveOnInput ==
  \A i, j \in DOMAIN input :
    IsValue(input[i]) /\ IsValue(input[j])
    /\ hash(hasher, input[i].val) = hash(hasher, input[j].val)
    => input[i].val = input[j].val

(* ------------------------------- claims -------------------------------- *)

\* C1: with a fingerprint function injective on the upstream's values,
\* DedupStream and TryDedupStream emit the first occurrences of the values
\* (and every Err) in upstream order, whatever polls were answered Pending;
\* the answer after the last of them is None, and no value is emitted twice.
C1_DedupFirstOccurrences ==
  (kind \in {"DedupStream", "TryDedupStream"} /\ InjectiveOnInput) =>
    LET expected == FirstOccurrences(input)
        k == LeadingItems(out)
    IN /\ k <= Len(expected)
       /\ SubSeq(out, 1, k) = SubSeq(expected, 1, k)
       /\ Len(out) > k => (k = Len(expected) /\ out[k + 1] = NONE)
       /\ \A i, j \in DOMAIN out :
            (i < j /\ IsValue(out[i]) /\ IsValue(out[j])) => out[i] # out[j]

\* a value, another, the first again, with a suspension on the way: the
\* adapter has emitted the two and then None
C1_Witness ==
  /\ kind = "DedupStream"
  /\ InjectiveOnInput
  /\ suspended
  /\ Len(input) = 3 /\ input[1] = input[3] /\ input[1] # input[2]
  /\ out = <<input[1], input[2], NONE>>

\* s up to and including its first Err (all of s when it has none)
RECURSIVE ThroughFirstErr(_)
ThroughFirstErr(s) ==
  IF s = <<>> THEN <<>>
  ELSE IF Head(s).tag = "Err" THEN <<Head(s)>>
  ELSE <<Head(s)>> \o ThroughFirstErr(Tail(s))

\* the upstream has answered None, or an Err
UpstreamTerminated ==
  ended \/ \E i \in DOMAIN Consumed : Consumed[i].tag = "Err"

ErrEmitted == \E i \in DOMAIN out : out[i].tag = "Err"
NoneEmitted == \E i \in DOMAIN out : out[i] = NONE

C4_AlwaysNoneOnceTerminated ==
  [][(kind = "FuseOnFail" /\ UpstreamTerminated) => last' = NONE]_vars

\* C4 as amended: once the upstream of a FuseOnFail has answered None or an
\* Err, a later poll answers None if the FuseOnFail has not answered None
\* yet (the poll after an Err), and panics once it has.
C4_NoneOnceThenPanic ==
  [][(kind = "FuseOnFail" /\ UpstreamTerminated)
       => last' = IF NoneEmitted THEN PANIC ELSE NONE]_vars

\* an upstream without Err was exhausted and the FuseOnFail polled again
C4_Witness ==
  /\ kind = "FuseOnFail"
  /\ ended
  /\ ~ErrEmitted
  /\ Len(out) >= 3
  /\ out[Len(out) - 1] = NONE
  /\ out[Len(out)] = PANIC

Answered == \E i \in DOMAIN out : out[i].tag \in {"OkSome", "OkNone", "Err", "Val", "Acc", "OkAcc"}

AllOk(s) == \A i \in DOMAIN s : s[i].tag = "Ok"

\* C7: TryStreamNth with offset k answers Ok(Some(v)) for the item v at
\* position k of an upstream whose first k+1 items are Ok, and Ok(None) for
\* an upstream of at most k items, all Ok, wherever the upstream answered
\* Pending: until the answer, remaining is k less the items pulled, and the
\* answer comes with exactly k+1 items pulled.
C7_TryNthAnswer ==
  kind = "TryStreamNth" =>
    /\ (out = <<>> /\ AllOk(Consumed)) => remaining + Len(Consumed) = offset
    /\ (out # <<>> /\ Len(input) > offset /\ AllOk(SubSeq(input, 1, offset + 1)))
         => out[1] = OkSome(input[offset + 1].val)
    /\ (Len(out) = 1 /\ out[1].tag = "OkSome") => Len(Consumed) = offset + 1
    /\ (out # <<>> /\ Len(input) <= offset /\ AllOk(input)) => out[1] = OkNone

\* try_nth(2) over three Ok items of which the last differs from the others,
\* answered after a suspension
C7_Witness ==
  /\ kind = "TryStreamNth"
  /\ offset = 2
  /\ suspended
  /\ Len(input) = 3 /\ AllOk(input)
  /\ input[3] # input[1] /\ input[3] # input[2]
  /\ out = <<OkSome(input[3].val)>>

\* C8 as stated: when the upstream of a StreamNth with offset k answers None
\* after at most k items, the poll that sees the None answers "none".
C8_NthNoneOnExhaustion ==
  (/\ kind = "StreamNth"
   /\ Len(input) <= offset
   /\ \E i \in DOMAIN callLog : callLog[i] = NONE)
    => last \in {NONE, OkNone}

\* C9: when the upstream answers an Err before TryStreamNth has answered,
\* that poll of the upstream is the last one of the call, and the call
\* returns that Err with the items after it left in the upstream.
C9_TryNthErrImmediately ==
  (/\ kind = "TryStreamNth"
   /\ Len(out) <= 1
   /\ \E i \in DOMAIN callLog : callLog[i].tag = "Err")
    => /\ callLog[Len(callLog)].tag = "Err"
       /\ \A i \in 1..(Len(callLog) - 1) : callLog[i].tag = "Ok"
       /\ last = callLog[Len(callLog)]
       /\ out = <<last>>
       /\ Consumed[Len(Consumed)] = last
       /\ remaining > 0 => remaining + Len(Consumed) = offset + 1

\* try_nth(2) over Ok, Err, Ok: the Err is the answer, one item was skipped
\* and the item after the Err was not pulled
C9_Witness ==
  /\ kind = "TryStreamNth"
  /\ offset = 2
  /\ Len(input) = 3
  /\ input[1].tag = "Ok" /\ input[2].tag = "Err" /\ input[3].tag = "Ok"
  /\ out = <<input[2]>>
  /\ src = <<input[3]>>
  /\ remaining = 1

\* C10 as stated: once TryStreamNth or StreamNth has returned its answer,
\* every later poll panics.
C10_NthPanicsOnceAnswered ==
  [][(kind \in {"TryStreamNth", "StreamNth"} /\ Answered) => last' = PANIC]_vars

\* the values of the items of s
ValuesOf(s) == [i \in DOMAIN s |-> s[i].val]

\* the left fold of the handler over the values s, from a
RECURSIVE FoldLeft(_, _)
FoldLeft(a, s) == IF s = <<>> THEN a ELSE FoldLeft(handler(a, Head(s)), Tail(s))

\* the upstream emits no Err and the handler's future fails on none of its values
ErrorFree ==
  \A i \in DOMAIN input : IsValue(input[i]) /\ input[i].val \notin failsOn

\* C2: over an error-free upstream x1..xn, FoldMut and TryFoldMut invoke the
\* handler once for each value pulled, in upstream order, the accumulator
\* is the left fold of the handler over the values handled so far, and the
\* answer is the left fold over x1..xn from the initial accumulator (the
\* initial accumulator itself for an empty upstream).
C2_FoldIsLeftFold ==
  (kind \in {"FoldMut", "TryFoldMut"} /\ ErrorFree) =>
    /\ handled = ValuesOf(Consumed)
    /\ ~Answered => state = SomeAcc(FoldLeft(initial, handled))
    /\ out # <<>> =>
         /\ handled = ValuesOf(input)
         /\ out[1] = Ans(IF kind = "FoldMut" THEN "Acc" ELSE "OkAcc",
                         FoldLeft(initial, ValuesOf(input)))

\* three values, the first two different, folded in with a suspension on
\* the way
C2_Witness ==
  /\ kind = "FoldMut"
  /\ suspended
  /\ initial = 1
  /\ Len(input) = 3 /\ input[1] # input[2]
  /\ out = <<Acc(FoldLeft(1, ValuesOf(input)))>>

\* C11 as stated: once FoldMut or TryFoldMut has returned its answer (the
\* accumulator, an Err of the upstream or an Err of the handler), every
\* later poll panics, and none returns a value or an error again. The
\* formula is the second half alone, which the first half implies: a later
\* poll returns no accumulator and no Err.
C11_FoldNoAnswerOnceAnswered ==
  [][(kind \in {"FoldMut", "TryFoldMut"} /\ Answered)
       => last'.tag \notin {"Acc", "OkAcc", "Err"}]_vars

IsErr(a) == a.tag = "Err"

\* C12: TryDedupStream returns every Err of its upstream from the poll in
\* which the upstream answered it, an Err equal to an earlier one as well
\* (the Errs emitted are the Errs pulled, one for one), and a poll that
\* returns an Err leaves the set of seen fingerprints as it was.
C12_TryDedupForwardsEveryErr ==
  /\ [](kind = "TryDedupStream" =>
          /\ SelectSeq(out, IsErr) = SelectSeq(Consumed, IsErr)
          /\ \A i \in DOMAIN callLog :
               IsErr(callLog[i]) => (i = Len(callLog) /\ last = callLog[i]))
  /\ [][(kind = "TryDedupStream" /\ IsErr(last')) => known' = known]_vars

\* a value and the same Err twice: both Errs were emitted, and the set of
\* seen fingerprints holds the fingerprint of the value alone
C12_Witness ==
  /\ kind = "TryDedupStream"
  /\ Len(input) = 3
  /\ input[1].tag = "Ok" /\ IsErr(input[2]) /\ input[3] = input[2]
  /\ out = input
  /\ hash(hasher, input[2].val) # hash(hasher, input[1].val)
  /\ known = {hash(hasher, input[1].val)}

\* what a dedup over the items s emits when kn is its set of seen
\* fingerprints: every Err, and every value whose fingerprint is new
RECURSIVE Emitted(_, _)
Emitted(s, kn) ==
  IF s = <<>> THEN <<>>
  ELSE IF IsErr(Head(s)) THEN <<Head(s)>> \o Emitted(Tail(s), kn)
  ELSE IF hash(hasher, Head(s).val) \in kn THEN Emitted(Tail(s), kn)
  ELSE <<Head(s)>> \o Emitted(Tail(s), kn \cup {hash(hasher, Head(s).val)})

\* C13 as stated: once a TryDedupStream has emitted an Err, no later poll
\* emits an item.
C13_NoItemAfterErr ==
  [][(kind = "TryDedupStream" /\ ErrEmitted) => ~IsItem(last')]_vars

\* C13 as amended: a TryDedupStream that has emitted an Err goes on as
\* before: what it has emitted is the head of what a dedup of the whole
\* upstream emits, the items after the Err included, and it answers None
\* only once all of these were emitted.
C13_TryDedupGoesOnAfterErr ==
  (kind = "TryDedupStream" /\ ErrEmitted) =>
    LET expected == Emitted(input, {})
        k == LeadingItems(out)
    IN /\ k <= Len(expected)
       /\ SubSeq(out, 1, k) = SubSeq(expected, 1, k)
       /\ Len(out) > k => (k = Len(expected) /\ out[k + 1] = NONE)

\* a value, an Err, a value of another fingerprint: the value after the Err
\* was emitted by the poll after the one that emitted the Err
C13_Witness ==
  /\ kind = "TryDedupStream"
  /\ Len(input) = 3
  /\ input[1].tag = "Ok" /\ IsErr(input[2]) /\ input[3].tag = "Ok"
  /\ hash(hasher, input[3].val) # hash(hasher, input[1].val)
  /\ out = input
  /\ last = input[3]

\* what try_filter_map_ok makes of the items s: Ok(r) for an Ok(v) the
\* predicate keeps as r, nothing for an Ok(v) it skips, an Err as it is
RECURSIVE FilterMap(_)
FilterMap(s) ==
  IF s = <<>> THEN <<>>
  ELSE LET a == Head(s) IN
       IF IsErr(a) THEN <<a>> \o FilterMap(Tail(s))
       ELSE IF predicate[a.val].some
       THEN <<Ok(predicate[a.val].val)>> \o FilterMap(Tail(s))
       ELSE FilterMap(Tail(s))

\* C14: the items TryFilterMapOk has emitted are, in upstream order, Ok(r)
\* for each Ok(v) pulled that the function keeps as r, nothing for each
\* Ok(v) it skips, and each Err pulled as it is, the items after an Err
\* like those before it; None is answered when the upstream answers None,
\* after all of these items.
C14_FilterMapOutput ==
  kind = "TryFilterMapOk" =>
    LET k == LeadingItems(out) IN
    /\ SubSeq(out, 1, k) = FilterMap(Consumed)
    /\ Len(out) > k => (out[k + 1] = NONE /\ Consumed = input)
    /\ ended => Len(out) > k
    /\ \A i \in DOMAIN out : i > k => ~IsItem(out[i])

\* a skipped value, an Err, a kept value: the Err and the R of the value
\* after it were emitted, then None
C14_Witness ==
  /\ kind = "TryFilterMapOk"
  /\ Len(input) = 3
  /\ input[1].tag = "Ok" /\ IsErr(input[2]) /\ input[3].tag = "Ok"
  /\ ~predicate[input[1].val].some
  /\ predicate[input[3].val].some
  /\ out = <<input[2], Ok(ToR(input[3].val)), NONE>>

\* the upstream has emitted an Err
UpstreamErred == \E i \in DOMAIN Consumed : IsErr(Consumed[i])

\* the values at the head of s, before its first Err
RECURSIVE ValuesBeforeErr(_)
ValuesBeforeErr(s) ==
  IF s = <<>> \/ IsErr(Head(s)) THEN <<>>
  ELSE <<Head(s).val>> \o ValuesBeforeErr(Tail(s))

IsPrefix(s, t) == Len(s) <= Len(t) /\ s = SubSeq(t, 1, Len(s))

AccReturned == \E i \in DOMAIN out : out[i].tag \in {"Acc", "OkAcc"}

\* C15: the poll of TryFoldMut in which the upstream answers an Err polls
\* nothing after it and returns that Err, and leaves the accumulator slot
\* empty; the accumulator is returned by no poll before or after, and the
\* handler is invoked neither for the Err nor for an item after it: it was
\* invoked for values before the first Err only, and is not invoked again.
C15_UpstreamErrEndsFold ==
  /\ [](kind = "TryFoldMut" =>
          /\ \A i \in DOMAIN callLog :
               IsErr(callLog[i]) => (i = Len(callLog) /\ last = callLog[i])
          /\ UpstreamErred =>
               /\ state = NoAcc
               /\ ~AccReturned
               /\ IsPrefix(handled, ValuesBeforeErr(input)))
  /\ [][(kind = "TryFoldMut" /\ UpstreamErred) => handled' = handled]_vars

\* a value, an Err, a value, and no handler error: the first poll returned
\* the Err with the first value folded in, the second poll pulled the value
\* after the Err and panicked without invoking the handler
C15_Witness ==
  /\ kind = "TryFoldMut"
  /\ Len(input) = 3
  /\ input[1].tag = "Ok" /\ IsErr(input[2]) /\ input[3].tag = "Ok"
  /\ out = <<input[2], PANIC>>
  /\ src = <<>>
  /\ handled = <<input[1].val>>
  /\ state = NoAcc

IsHandlerError(a) == IsErr(a) /\ a.val > Cardinality(Errors)

\* C16: the poll of TryFoldMut in which the handler's future completes with
\* an error polls nothing after that future and returns its error, with the
\* accumulator slot and the pending slot both left empty; once a handler
\* error was returned the slot stays empty and no poll returns the
\* accumulator.
C16_HandlerErrEndsFold ==
  kind = "TryFoldMut" =>
    /\ \A i \in DOMAIN callLog :
         (callLog[i].tag = "FutureReady" /\ callLog[i].val \in failsOn)
           => /\ i = Len(callLog)
              /\ last = HandlerError(callLog[i].val)
              /\ state = NoAcc
              /\ pending_future = NoFuture
    /\ IsHandlerError(last) =>
         /\ callLog # <<>>
         /\ callLog[Len(callLog)].tag = "FutureReady"
    /\ (\E i \in DOMAIN out : IsHandlerError(out[i])) => (state = NoAcc /\ ~AccReturned)

\* the handler fails on the first of two values: the poll returned its
\* error after a suspension on the handler's future, and the second value
\* is still in the upstream
C16_Witness ==
  /\ kind = "TryFoldMut"
  /\ Len(input) = 2
  /\ input[1].tag = "Ok" /\ input[2].tag = "Ok"
  /\ input[1].val \in failsOn
  /\ suspended
  /\ out = <<HandlerError(input[1].val)>>
  /\ src = <<input[2]>>
  /\ state = NoAcc
  /\ pending_future = NoFuture

\* the number of accumulators among the answers s
RECURSIVE AccCount(_)
AccCount(s) ==
  IF s = <<>> THEN 0
  ELSE (IF Head(s).tag \in {"Acc", "OkAcc"} THEN 1 ELSE 0) + AccCount(Tail(s))

\* C17: over the polls of a FoldMut or TryFoldMut the accumulator is
\* returned at most once; the poll that returns it is one in which the
\* upstream answered None, as the last thing polled; and in every state
\* after it the accumulator slot is empty.
C17_AccumulatorReturnedOnce ==
  kind \in {"FoldMut", "TryFoldMut"} =>
    /\ AccCount(out) <= 1
    /\ last.tag \in {"Acc", "OkAcc"} =>
         /\ callLog # <<>>
         /\ callLog[Len(callLog)] = NONE
         /\ ended
    /\ AccReturned => state = NoAcc

\* the accumulator was returned and the fold polled again, against an
\* upstream that then answers None again: the second poll panicked on the
\* empty slot
C17_Witness ==
  /\ kind = "FoldMut"
  /\ input # <<>>
  /\ Len(out) = 2
  /\ out[1].tag = "Acc"
  /\ out[2] = PANIC
  /\ callLog = <<NONE>>
  /\ state = NoAcc

IsFuturePoll(a) == a.tag \in {"FuturePending", "FutureReady"}

\* C19: in every poll of a FoldMut or TryFoldMut, a handler future left
\* pending by the poll before is polled first, before the upstream; an item
\* pulled from the upstream is followed by a poll of the handler's future
\* for that item, before the upstream is polled again; a future that
\* answers Pending is the last thing polled, the poll returns Pending and
\* keeps that future in the slot; the slot is occupied in no other state
\* (one future at most, which the fold polls to its end before it makes
\* another), and no value pulled is lost: without a handler error, the
\* handler was invoked with every value pulled.
C19_FutureBeforeUpstream ==
  /\ [](kind \in {"FoldMut", "TryFoldMut"} =>
          /\ \A i \in DOMAIN callLog :
               /\ (IsValue(callLog[i]) /\ last # PANIC) =>
                    /\ i < Len(callLog)
                    /\ IsFuturePoll(callLog[i + 1])
                    /\ callLog[i + 1].val = callLog[i].val
               /\ callLog[i].tag = "FuturePending" =>
                    /\ i = Len(callLog)
                    /\ last = PENDING
                    /\ pending_future = SomeFuture(callLog[i].val)
          /\ pending_future.some =>
               /\ callLog # <<>>
               /\ callLog[Len(callLog)] = Ans("FuturePending", pending_future.of)
          /\ (state.some /\ ~UpstreamErred) => handled = ValuesOf(Consumed))
  /\ [][(kind \in {"FoldMut", "TryFoldMut"} /\ pending_future.some)
          => /\ callLog' # <<>>
             /\ IsFuturePoll(callLog'[1])
             /\ callLog'[1].val = pending_future.of
             /\ callLog'[1].tag = "FuturePending" => (src' = src /\ handled' = handled)]_vars

\* two values: the future of the first answered Pending to one poll, which
\* pulled nothing more, and the fold then went on to fold in both
C19_Witness ==
  /\ kind = "FoldMut"
  /\ Len(input) = 2
  /\ suspended
  /\ callLog = <<Ans("FutureReady", input[1].val), input[2],
                 Ans("FutureReady", input[2].val), NONE>>
  /\ out = <<Acc(FoldLeft(initial, ValuesOf(input)))>>

\* C20: once the upstream of a FuseOnFail has answered None or an Err, no
\* later poll of the FuseOnFail polls the upstream, whether it answers None
\* or panics: the upstream stays as it was.
C20_NoUpstreamPollOnceTerminated ==
  [][(kind = "FuseOnFail" /\ UpstreamTerminated)
       => (callLog' = <<>> /\ src' = src /\ ended' = ended)]_vars

\* an Err with an item after it: the FuseOnFail answered the Err, then None,
\* then panicked, and the last call polled nothing; the item after the Err
\* is still in the upstream, which has not answered None
C20_Witness ==
  /\ kind = "FuseOnFail"
  /\ Len(input) >= 2
  /\ IsErr(input[Len(input) - 1])
  /\ src = <<input[Len(input)]>>
  /\ ~ended
  /\ last = PANIC
  /\ callLog = <<>>
  /\ Len(out) >= 3

\* C18: each push operation on a combinator reaches the upstream as the
\* same operation with the same item, in the same call, and returns the
\* upstream's answer as it is: the latest operation the consumer made and
\* what it got back are the latest operation the upstream received and what
\* it answered. A push operation changes none of the combinator's fields
\* (known, fused, failed, remaining, state, pending_future).
C18_PushForwarded ==
  /\ [](pushed = received)
  /\ [][pushed' # pushed => fields' = fields]_vars

\* a fold whose handler future is pending was given a value to send, which
\* the upstream refused: the error came back, accumulator and future are
\* still in their slots
C18_Witness ==
  /\ kind = "FoldMut"
  /\ pending_future.some
  /\ state.some
  /\ pushed.op = "start_send"
  /\ pushed.item = 2
  /\ IsErr(pushed.res)
  /\ received = pushed

\* C21: in every poll of every combinator a Pending of the upstream is the
\* last thing the call polls and the call returns Pending; a call in which
\* the upstream's Pending is all that was polled leaves every field of the
\* combinator (known, fused, failed, remaining, state, pending_future) as
\* it was, and a call that returns Pending leaves the set of seen
\* fingerprints and the flags as they were.
C21_PendingPropagated ==
  /\ [](\A i \in DOMAIN callLog :
          callLog[i] = PENDING => (i = Len(callLog) /\ last = PENDING))
  /\ [][/\ callLog' = <<PENDING>> => fields' = fields
        /\ last' = PENDING => <<known, fused, failed>>' = <<known, fused, failed>>]_vars

\* a TryStreamNth that has skipped an item was polled while its upstream
\* was not ready: the call polled the upstream once and returned Pending,
\* with the count as the calls before left it
C21_Witness ==
  /\ kind = "TryStreamNth"
  /\ offset = 2
  /\ remaining = 1
  /\ Len(Consumed) = 1
  /\ callLog = <<PENDING>>
  /\ last = PENDING
  /\ out = <<>>

\* the answers of the upstream among what the latest call polled
UpstreamAnswers == SelectSeq(callLog, LAMBDA a : ~IsFuturePoll(a))

\* C22 as stated: within one call a combinator polls its upstream again
\* only after an item: every answer of the upstream but the last of the
\* call is an item, and the call returns.
C22_RepollOnlyAfterItem ==
  /\ \A i \in 1..(Len(UpstreamAnswers) - 1) : IsItem(UpstreamAnswers[i])
  /\ last # HANG

PassThrough == {"DedupStream", "TryDedupStream", "TryFilterMapOk"}

OkValues(s) == ValuesOf(SelectSeq(s, IsValue))

\* C24: the values TryFilterMapOk has invoked its function with are the
\* values of the Ok items pulled from the upstream, one invocation for
\* each, in upstream order: none for an Err, none for the upstream's None,
\* and none in a call that pulls no Ok item.
C24_FunctionOncePerOk ==
  /\ [](kind = "TryFilterMapOk" => handled = OkValues(Consumed))
  /\ [][kind = "TryFilterMapOk"
          => handled' = handled \o OkValues(SelectSeq(callLog', IsItem))]_vars

\* the same value twice with an Err between them, all pulled: the function
\* was invoked twice, once for each Ok
C24_Witness ==
  /\ kind = "TryFilterMapOk"
  /\ Len(input) = 3
  /\ input[1].tag = "Ok" /\ IsErr(input[2]) /\ input[3] = input[1]
  /\ ended
  /\ handled = <<input[1].val, input[1].val>>

\* the fingerprints of the values among the answers s
FingerprintsOf(s) == {hash(hasher, s[i].val) : i \in {j \in DOMAIN s : IsValue(s[j])}}

\* C25: in every state of a DedupStream or TryDedupStream the set of seen
\* fingerprints is the set of the fingerprints of the values emitted so
\* far; no poll removes a fingerprint, a poll that emits a value adds
\* exactly one and every other poll adds none.
C25_KnownIsEmitted ==
  /\ [](kind \in {"DedupStream", "TryDedupStream"} => known = FingerprintsOf(out))
  /\ [][(kind \in {"DedupStream", "TryDedupStream"})
          => /\ known \subseteq known'
             /\ Cardinality(known') =
                  Cardinality(known) + (IF IsValue(last') THEN 1 ELSE 0)]_vars

\* a value, the same again, another: two values were emitted, a duplicate
\* skipped, and two fingerprints are in the set
C25_Witness ==
  /\ kind = "DedupStream"
  /\ Len(input) = 3
  /\ input[1] = input[2]
  /\ Len(out) = 2
  /\ out = <<input[1], input[3]>>
  /\ known = {hash(hasher, input[1].val), hash(hasher, input[3].val)}
  /\ Cardinality(known) = 2

\* C26: what a DedupStream has emitted is what is left of the values pulled
\* when every value is dropped whose fingerprint is that of a value pulled
\* before it, be the two values equal or not: of two values with one
\* fingerprint the first is emitted and the second is not. A value that is
\* dropped is not the last thing its call polls (the call goes on to poll
\* the upstream), and a value that is the last thing polled is the answer.
C26_CollisionDropped ==
  kind = "DedupStream" =>
    /\ SelectSeq(out, IsValue) = Emitted(Consumed, {})
    /\ \A i \in DOMAIN callLog :
         IsValue(callLog[i]) =>
           IF i = Len(callLog)
           THEN last = callLog[i]
           ELSE /\ hash(hasher, callLog[i].val) \in known
                /\ last # callLog[i]

\* two different values with one fingerprint: the first was emitted; the
\* second poll pulled the second, dropped it and went on, in the same call,
\* to the upstream's None
C26_Witness ==
  /\ kind = "DedupStream"
  /\ Len(input) = 2
  /\ input[1] # input[2]
  /\ hash(hasher, input[1].val) = hash(hasher, input[2].val)
  /\ out = <<input[1], NONE>>
  /\ callLog = <<input[2], NONE>>

\* the fields of a combinator as one record
FieldsAtNew ==
  [known |-> {}, fused |-> FALSE, failed |-> FALSE, remaining |-> offset,
   state |-> IF kind \in {"FoldMut", "TryFoldMut"} THEN SomeAcc(initial) ELSE NoAcc,
   pending_future |-> NoFuture, handled |-> <<>>]

\* one call of the combinator k with the fields f on the upstream up
Call(k, f, up) ==
  CASE k = "DedupStream" ->
         LET r == DedupStream_poll_next(f.known, up) IN
         [res |-> r.res, up |-> r.up, f |-> [f EXCEPT !.known = r.known]]
    [] k = "TryDedupStream" ->
         LET r == TryDedupStream_poll_next(f.known, up) IN
         [res |-> r.res, up |-> r.up, f |-> [f EXCEPT !.known = r.known]]
    [] k = "TryFilterMapOk" ->
         LET r == TryFilterMapOk_poll_next(f.handled, up) IN
         [res |-> r.res, up |-> r.up, f |-> [f EXCEPT !.handled = r.handled]]
    [] k = "FuseOnFail" ->
         LET r == FuseOnFail_poll_next(f.fused, f.failed, up) IN
         [res |-> r.res, up |-> r.up,
          f |-> [f EXCEPT !.fused = r.fused, !.failed = r.failed]]
    [] k = "TryStreamNth" ->
         LET r == TryStreamNth_poll(f.fused, f.remaining, up) IN
         [res |-> r.res, up |-> r.up,
          f |-> [f EXCEPT !.fused = r.fused, !.remaining = r.remaining]]
    [] k = "FoldMut" ->
         LET r == FoldMut_poll(f.state, f.pending_future, f.handled, up) IN
         [res |-> r.res, up |-> r.up,
          f |-> [f EXCEPT !.state = r.state, !.pending_future = r.pending_future,
                          !.handled = r.handled]]
    [] k = "TryFoldMut" ->
         LET r == TryFoldMut_poll(f.state, f.pending_future, f.handled, up) IN
         [res |-> r.res, up |-> r.up,
          f |-> [f EXCEPT !.state = r.state, !.pending_future = r.pending_future,
                          !.handled = r.handled]]

\* the answers of the first n calls of the run in which neither the
\* upstream nor a handler future ever answers Pending, up to the call that
\* polls the upstream after its None
RECURSIVE Unsuspended(_, _, _, _, _)
Unsuspended(k, f, s, e, n) ==
  IF n = 0 THEN <<>>
  ELSE LET r == Call(k, f, [src |-> s, ended |-> e, budget |-> 2 * Len(input) + 2,
                            post |-> NONE, log |-> <<>>, beyond |-> FALSE])
       IN IF r.up.beyond THEN <<>>
          ELSE <<r.res>> \o Unsuspended(k, r.f, r.up.src, r.up.ended, n - 1)

Suspendable ==
  {"DedupStream", "TryDedupStream", "TryFilterMapOk", "FuseOnFail", "TryStreamNth",
   "FoldMut", "TryFoldMut"}

\* C27: whichever polls of the upstream or of a handler future were
\* answered Pending, the answers other than Pending that the consumer has
\* received are the first answers of the run over the same upstream in
\* which nothing is ever answered Pending (as long as the upstream was not
\* polled after its None, where its answer is its own choice): a
\* suspension makes no answer differ, go missing or come twice.
C27_SuspensionIndependent ==
  (kind \in Suspendable /\ ~beyond) =>
    IsPrefix(out, Unsuspended(kind, FieldsAtNew, input, FALSE, Len(out)))

\* a TryFoldMut over a value, a second value on which the handler fails and
\* an Err, suspended on the way: the answers are the handler's error and,
\* from the poll after it, the Err of the upstream
C27_Witness ==
  /\ kind = "TryFoldMut"
  /\ suspended
  /\ ~beyond
  /\ Len(input) = 3
  /\ input[1].tag = "Ok" /\ input[2].tag = "Ok" /\ IsErr(input[3])
  /\ failsOn = {input[2].val}
  /\ input[1] # input[2]
  /\ out = <<HandlerError(input[2].val), input[3]>>

\* C28: a FoldMut or TryFoldMut whose consumer keeps polling, over a finite
\* upstream that answers Pending finitely often and with handler futures
\* that complete after finitely many polls, returns its answer in the end
\* (the accumulator, or for TryFoldMut an Err).
C28_FoldAnswersInTheEnd ==
  <>Answered

\* every value folded in, with a suspension on the way, by a TryFoldMut
\* whose handler fails on none of them
C28_Witness ==
  /\ kind = "TryFoldMut"
  /\ Len(input) = MaxAwaitLen
  /\ ErrorFree
  /\ suspended
  /\ Len(out) = 1
  /\ out[1].tag = "OkAcc"
  /\ handled = ValuesOf(input)

\* the number of items a dedup will still emit from this state
StillToEmit == Len(Emitted(src, known))

\* C29 as stated: in every state of a DedupStream or TryDedupStream
\* size_hint() is the pair read from the upstream at construction, and its
\* lower bound does not exceed the number of items still to be emitted.
C29_SizeHintLowerBound ==
  (kind \in {"DedupStream", "TryDedupStream"}) =>
    /\ DedupStream_size_hint = src_size_hint(input)
    /\ DedupStream_size_hint[1] <= StillToEmit

====
